---- MODULE Spec2Model ----
(***************************************************************************)
(* Context management of autoload/ollama_complete.py: the session turn     *)
(* log, the two-tier snippet cache, the persisted context document and    *)
(* the editor actions (explain, generate) that mutate them.                *)
(*                                                                         *)
(* Python str values are tuples of one-character strings, so that strip,   *)
(* lstrip, startswith, split and the regular expressions are computed.     *)
(* Python dicts are functions; the empty dict is the function with the     *)
(* empty domain.  The backing file holds a sequence of JSON tokens.        *)
(***************************************************************************)
EXTENDS Integers, Sequences, FiniteSets, TLC

VARIABLES
    turn_history,    \* _turn_history: sequence of turns [role, content]
    snippet_cache,   \* _snippet_cache: comment -> code
    disk_context,    \* _disk_context: the in-memory document
    file,            \* CONTEXT_FILE on disk: [exists, readable, text]
    appended,        \* history: every turn appended since the log was last empty
    puts,            \* history: comment -> the latest cache_snippet call of this
                     \* process for it since the last clear_all_context
    last,            \* history: the last operation and what its caller observed
    durable,         \* history: comment -> the code of the latest cache_snippet
                     \* call of any session of this process since the last
                     \* clear_all_context
    peer             \* a second editor process on the same CONTEXT_FILE:
                     \* its _snippet_cache, its _disk_context and the
                     \* document both processes loaded at start

vars ==
    <<turn_history, snippet_cache, disk_context, file, appended, puts, last,
      durable, peer>>

(***************************************************************************)
(* Program constants and bounds                                            *)
(***************************************************************************)
MAX_TURNS == 10

\* at most this many add_turn calls since the log was last empty (log model)
MaxAppends == 25
\* at most this many of those calls pass something else than the usual turn
MaxVaried == 2
\* at most this many turns are appended per session by explain and generate
MaxSessionTurns == 2
\* at most this many turns are appended by explain and generate in a long
\* session, one that fills the log and evicts
MaxChatTurns == 24
\* a model response is made of at most this many pieces
MaxPieces == 3
\* generated code has at most this many lines
MaxLines == 3

(***************************************************************************)
(* Strings                                                                 *)
(***************************************************************************)
NL == "\n"
Whitespace == {" ", NL}
Upper == {"A", "B", "C", "D", "E", "F", "G", "H", "I", "J", "K", "L", "M",
          "N", "O", "P", "Q", "R", "S", "T", "U", "V", "W", "X", "Y", "Z"}

EmptyStr == <<>>

RECURSIVE LStrip(_)
LStrip(s) ==
    IF s # <<>> /\ Head(s) \in Whitespace THEN LStrip(Tail(s)) ELSE s

RECURSIVE RStrip(_)
RStrip(s) ==
    IF s # <<>> /\ s[Len(s)] \in Whitespace
    THEN RStrip(SubSeq(s, 1, Len(s) - 1)) ELSE s

\* str.strip()
Strip(s) == RStrip(LStrip(s))

\* str.lstrip("#")
RECURSIVE LStripHash(_)
LStripHash(s) ==
    IF s # <<>> /\ Head(s) = "#" THEN LStripHash(Tail(s)) ELSE s

\* str.startswith(p)
StartsWith(s, p) == Len(p) <= Len(s) /\ SubSeq(s, 1, Len(p)) = p

\* str.endswith(p)
EndsWith(s, p) ==
    Len(p) <= Len(s) /\ SubSeq(s, Len(s) - Len(p) + 1, Len(s)) = p

\* p in s
Contains(s, p) ==
    \E i \in 1..(Len(s) - Len(p) + 1) : SubSeq(s, i, i + Len(p) - 1) = p

\* str.split("\n"): always at least one piece
RECURSIVE SplitLines(_)
SplitLines(s) ==
    IF \A i \in 1..Len(s) : s[i] # NL
    THEN <<s>>
    ELSE LET i == CHOOSE j \in 1..Len(s) :
                      s[j] = NL /\ \A h \in 1..(j - 1) : s[h] # NL
         IN  <<SubSeq(s, 1, i - 1)>> \o SplitLines(SubSeq(s, i + 1, Len(s)))

\* "\n".join(lines)
RECURSIVE JoinLines(_)
JoinLines(lines) ==
    IF lines = <<>> THEN <<>>
    ELSE IF Len(lines) = 1 THEN lines[1]
    ELSE lines[1] \o <<NL>> \o JoinLines(Tail(lines))

(***************************************************************************)
(* Dicts                                                                   *)
(***************************************************************************)
EmptyDict == [k \in {} |-> <<>>]

\* d[k] = v
DictSet(d, k, v) == (k :> v) @@ d

\* d.get(k, default)
DictGet(d, k, default) == IF k \in DOMAIN d THEN d[k] ELSE default

\* d.setdefault(k, {}) as it leaves d
SetDefault(d, k) == IF k \in DOMAIN d THEN d ELSE DictSet(d, k, EmptyDict)

\* {"snippets": {}, "file_summaries": {}}
EmptyDocument == [s \in {"snippets", "file_summaries"} |-> EmptyDict]

(***************************************************************************)
(* JSON text: json.dump writes a token stream, json.load parses it         *)
(***************************************************************************)
Tok(t, s) == [t |-> t, s |-> s]

\* nesting of the document: sections, entries, fields, then strings
DocumentDepth == 3

\* json.dump(value): a string at depth 0, else an object of depth - 1 values
RECURSIVE DumpValue(_, _), DumpMembers(_, _)
DumpValue(v, depth) ==
    IF depth = 0
    THEN <<Tok("str", v)>>
    ELSE <<Tok("{", <<>>)>> \o DumpMembers(v, depth) \o <<Tok("}", <<>>)>>

DumpMembers(d, depth) ==
    IF DOMAIN d = {} THEN <<>>
    ELSE LET k    == CHOOSE j \in DOMAIN d : TRUE
             rest == [j \in DOMAIN d \ {k} |-> d[j]]
         IN  <<Tok("str", k), Tok(":", <<>>)>> \o DumpValue(d[k], depth - 1)
             \o (IF DOMAIN rest = {} THEN <<>>
                 ELSE <<Tok(",", <<>>)>> \o DumpMembers(rest, depth))

\* json.dump(ctx, f, indent=2)
JsonDump(ctx) == DumpValue(ctx, DocumentDepth)

ParseFail == [ok |-> FALSE, next |-> 0, val |-> <<>>]

\* json.load: one value starting at token i; ok is FALSE on JSONDecodeError
RECURSIVE ParseValue(_, _), ParseMembers(_, _, _)
ParseValue(t, i) ==
    IF i > Len(t) THEN ParseFail
    ELSE IF t[i].t = "str" THEN [ok |-> TRUE, next |-> i + 1, val |-> t[i].s]
    ELSE IF t[i].t = "{"
    THEN IF i + 1 <= Len(t) /\ t[i + 1].t = "}"
         THEN [ok |-> TRUE, next |-> i + 2, val |-> EmptyDict]
         ELSE ParseMembers(t, i + 1, EmptyDict)
    ELSE ParseFail

ParseMembers(t, i, acc) ==
    IF i + 1 > Len(t) \/ t[i].t # "str" \/ t[i + 1].t # ":" THEN ParseFail
    ELSE LET v == ParseValue(t, i + 2)
         IN  IF ~v.ok \/ v.next > Len(t) THEN ParseFail
             ELSE IF t[v.next].t = ","
             THEN ParseMembers(t, v.next + 1, DictSet(acc, t[i].s, v.val))
             ELSE IF t[v.next].t = "}"
             THEN [ok |-> TRUE, next |-> v.next + 1,
                   val |-> DictSet(acc, t[i].s, v.val)]
             ELSE ParseFail

\* json.load(f): the whole text is one value
JsonLoad(text) ==
    LET r == ParseValue(text, 1)
    IN  IF r.ok /\ r.next = Len(text) + 1 THEN r ELSE ParseFail

(***************************************************************************)
(* Persisted context store                                                 *)
(***************************************************************************)
\* torn records that the last write to the file stopped early
AbsentFile ==
    [exists |-> FALSE, readable |-> FALSE, torn |-> FALSE, text |-> <<>>]

\* what the file system does to one _save_context call
\*   ok          directory, open and write succeed
\*   mkdir_fail  os.makedirs raises OSError
\*   open_fail   open(CONTEXT_FILE, "w") raises; the file is untouched
\*   write_fail  open truncated the file, the write stops after a prefix
DiskKinds == {"ok", "mkdir_fail", "open_fail", "write_fail"}

\* a failed write leaves at most this many tokens in the file
MaxWritten == 1

DiskOutcomes ==
    [kind : DiskKinds \ {"write_fail"}, written : {0}]
        \cup [kind : {"write_fail"}, written : 0..MaxWritten]

Min(a, b) == IF a < b THEN a ELSE b

\* _load_context without the try around open and json.load
_load_context_unguarded(f) ==
    IF f.exists
    THEN IF f.readable /\ JsonLoad(f.text).ok
         THEN [ctx |-> JsonLoad(f.text).val, raised |-> FALSE]
         ELSE [ctx |-> EmptyDocument, raised |-> TRUE]
    ELSE [ctx |-> EmptyDocument, raised |-> FALSE]

\* _load_context(): the document it returns and whether it raised
_load_context(f) ==
    IF f.exists
    THEN IF f.readable /\ JsonLoad(f.text).ok
         THEN [ctx |-> JsonLoad(f.text).val, raised |-> FALSE]
         ELSE [ctx |-> EmptyDocument, raised |-> FALSE]
    ELSE [ctx |-> EmptyDocument, raised |-> FALSE]

\* os.remove(CONTEXT_FILE): FileNotFoundError when the file is absent
os_remove(f) ==
    IF f.exists THEN [file |-> AbsentFile, raised |-> FALSE]
    ELSE [file |-> f, raised |-> TRUE]

\* clear_all_context removing the file without asking whether it exists
remove_context_file_unchecked(f) == os_remove(f)

\* the file part of clear_all_context
remove_context_file(f) ==
    IF f.exists THEN os_remove(f) ELSE [file |-> f, raised |-> FALSE]

\* _save_context opening the file in append mode
_save_context_appends(ctx, f, disk) ==
    LET text == (IF f.exists THEN f.text ELSE <<>>) \o JsonDump(ctx)
        perm == IF f.exists THEN f.readable ELSE TRUE
    IN  IF disk.kind = "mkdir_fail"
        THEN [file |-> f, raised |-> TRUE, wrote |-> FALSE]
        ELSE IF disk.kind = "open_fail"
        THEN [file |-> f, raised |-> FALSE, wrote |-> FALSE]
        ELSE IF disk.kind = "write_fail"
        THEN [file   |-> [exists |-> TRUE, readable |-> perm, torn |-> TRUE,
                          text |-> SubSeq(text, 1,
                                          Min(disk.written, Len(text) - 1))],
              raised |-> FALSE, wrote |-> FALSE]
        ELSE [file   |-> [exists |-> TRUE, readable |-> perm, torn |-> FALSE,
                          text |-> text],
              raised |-> FALSE, wrote |-> TRUE]

\* _save_context(ctx): the file it leaves and whether it raised
_save_context(ctx, f, disk) ==
    LET text == JsonDump(ctx)
        perm == IF f.exists THEN f.readable ELSE TRUE
    IN  IF disk.kind = "mkdir_fail"
        THEN [file |-> f, raised |-> TRUE, wrote |-> FALSE]
        ELSE IF disk.kind = "open_fail"
        THEN [file |-> f, raised |-> FALSE, wrote |-> FALSE]
        ELSE IF disk.kind = "write_fail"
        THEN [file   |-> [exists |-> TRUE, readable |-> perm, torn |-> TRUE,
                          text |-> SubSeq(text, 1,
                                          Min(disk.written, Len(text) - 1))],
              raised |-> FALSE, wrote |-> FALSE]
        ELSE [file   |-> [exists |-> TRUE, readable |-> perm, torn |-> FALSE,
                          text |-> text],
              raised |-> FALSE, wrote |-> TRUE]

(***************************************************************************)
(* Session turn log                                                        *)
(***************************************************************************)
Roles == {"user", "assistant"}

\* add_turn evicting a whole user/assistant pair at capacity
add_turn_evicts_pair(log, role, content) ==
    LET grown     == Append(log, [role |-> role, content |-> content])
        max_items == MAX_TURNS * 2
    IN  IF Len(grown) > max_items THEN Tail(Tail(grown)) ELSE grown

\* add_turn evicting as soon as the log reaches capacity
add_turn_trims_at_limit(log, role, content) ==
    LET grown     == Append(log, [role |-> role, content |-> content])
        max_items == MAX_TURNS * 2
    IN  IF Len(grown) >= max_items THEN Tail(grown) ELSE grown
\* add_turn(role, content): the log it leaves
add_turn(log, role, content) ==
    LET grown     == Append(log, [role |-> role, content |-> content])
        max_items == MAX_TURNS * 2
    IN  IF Len(grown) > max_items THEN Tail(grown) ELSE grown

\* _turn_history[-(MAX_TURNS * 2):]
LastItems(log, n) ==
    IF Len(log) <= n THEN log ELSE SubSeq(log, Len(log) - n + 1, Len(log))

\* get_history_messages() with the slice taken as MAX_TURNS entries instead
\* of MAX_TURNS pairs
get_history_messages_half(log, system_prompt) ==
    <<[role |-> "system", content |-> system_prompt]>>
        \o LastItems(log, MAX_TURNS)
\* get_history_messages(system_prompt)
get_history_messages(log, system_prompt) ==
    <<[role |-> "system", content |-> system_prompt]>>
        \o LastItems(log, MAX_TURNS * 2)

(***************************************************************************)
(* Snippet cache                                                           *)
(***************************************************************************)
\* time.strftime("%Y-%m-%d %H:%M:%S") at the moment of the call
Timestamps == {"t1"}

\* cache_snippet keeping the code the memory tier already has for the comment
cache_snippet_first_wins(cache, ctx, f, comment, code, ts, disk) ==
    LET cache2 == IF comment \in DOMAIN cache THEN cache
                  ELSE DictSet(cache, comment, code)
        ctx1   == SetDefault(ctx, "snippets")
        ctx2   == [ctx1 EXCEPT !["snippets"] =
                      DictSet(@, comment, [code |-> code, timestamp |-> ts])]
        saved  == _save_context(ctx2, f, disk)
    IN  [cache |-> cache2, ctx |-> ctx2, file |-> saved.file,
         raised |-> saved.raised, wrote |-> saved.wrote]

\* cache_snippet writing the memory tier only, and saving the document
cache_snippet_memory_only(cache, ctx, f, comment, code, ts, disk) ==
    LET cache2 == DictSet(cache, comment, code)
        saved  == _save_context(ctx, f, disk)
    IN  [cache |-> cache2, ctx |-> ctx, file |-> saved.file,
         raised |-> saved.raised, wrote |-> saved.wrote]

\* cache_snippet saving the document before it adds the entry
cache_snippet_saves_first(cache, ctx, f, comment, code, ts, disk) ==
    LET cache2 == DictSet(cache, comment, code)
        saved  == _save_context(ctx, f, disk)
        ctx1   == SetDefault(ctx, "snippets")
        ctx2   == [ctx1 EXCEPT !["snippets"] =
                      DictSet(@, comment, [code |-> code, timestamp |-> ts])]
    IN  [cache |-> cache2, ctx |-> ctx2, file |-> saved.file,
         raised |-> saved.raised, wrote |-> saved.wrote]

\* cache_snippet reading the file again before it saves, and keeping the
\* entries it finds there
cache_snippet_merges(cache, ctx, f, comment, code, ts, disk) ==
    LET cache2  == DictSet(cache, comment, code)
        on_file == DictGet(_load_context(f).ctx, "snippets", EmptyDict)
        ctx1    == SetDefault(ctx, "snippets")
        ctx2    == [ctx1 EXCEPT !["snippets"] =
                      DictSet(@ @@ on_file, comment,
                              [code |-> code, timestamp |-> ts])]
        saved   == _save_context(ctx2, f, disk)
    IN  [cache |-> cache2, ctx |-> ctx2, file |-> saved.file,
         raised |-> saved.raised, wrote |-> saved.wrote]
\* cache_snippet(comment, code): both tiers and the file it leaves
cache_snippet(cache, ctx, f, comment, code, ts, disk) ==
    LET cache2 == DictSet(cache, comment, code)
        ctx1   == SetDefault(ctx, "snippets")
        ctx2   == [ctx1 EXCEPT !["snippets"] =
                      DictSet(@, comment, [code |-> code, timestamp |-> ts])]
        saved  == _save_context(ctx2, f, disk)
    IN  [cache |-> cache2, ctx |-> ctx2, file |-> saved.file,
         raised |-> saved.raised, wrote |-> saved.wrote]

None == [some |-> FALSE, code |-> <<>>]
Some(code) == [some |-> TRUE, code |-> code]

\* get_cached_snippet(comment): the code or None
get_cached_snippet(cache, ctx, comment) ==
    IF comment \in DOMAIN cache
    THEN Some(cache[comment])
    ELSE LET snippets == DictGet(ctx, "snippets", EmptyDict)
             entry    == DictGet(snippets, comment, EmptyDict)
         IN  IF DOMAIN entry # {} /\ "code" \in DOMAIN entry
             THEN Some(entry["code"])
             ELSE None

\* store_file_summary(filepath, summary): the document and the file it leaves
store_file_summary(ctx, f, filepath, summary, ts, disk) ==
    LET ctx1  == SetDefault(ctx, "file_summaries")
        ctx2  == [ctx1 EXCEPT !["file_summaries"] =
                     DictSet(@, filepath,
                             [summary |-> summary, timestamp |-> ts])]
        saved == _save_context(ctx2, f, disk)
    IN  [ctx |-> ctx2, file |-> saved.file,
         raised |-> saved.raised, wrote |-> saved.wrote]

\* get_file_summary(filepath)
get_file_summary(ctx, filepath) ==
    LET summaries == DictGet(ctx, "file_summaries", EmptyDict)
        entry     == DictGet(summaries, filepath, EmptyDict)
    IN  IF "summary" \in DOMAIN entry THEN Some(entry["summary"]) ELSE None

(***************************************************************************)
(* Text sanitizer                                                          *)
(***************************************************************************)
\* the backquote character (the lexer of TLA+ has no string for it)
Backquote == "BQ"
Fence == <<Backquote, Backquote, Backquote>>
Python == <<"p", "y", "t", "h", "o", "n">>

At(s, i, p) == i >= 1 /\ i + Len(p) - 1 <= Len(s) /\ SubSeq(s, i, i + Len(p) - 1) = p

\* an opening fence, optional "python" and a newline matched at i:
\* the index after the newline, else 0
FenceBody(s, i) ==
    IF At(s, i, Fence \o Python \o <<NL>>) THEN i + 10
    ELSE IF At(s, i, Fence \o <<NL>>) THEN i + 4
    ELSE 0

\* the closing fences the lazy group can stop at, from index b on
Closings(s, b) == {j \in b..Len(s) : At(s, j, Fence)}

SetMin(S) == CHOOSE x \in S : \A y \in S : x <= y

\* _extract_code(content)
_extract_code(content) ==
    LET closed == {i \in 1..Len(content) :
                      FenceBody(content, i) > 0
                      /\ Closings(content, FenceBody(content, i)) # {}}
        opened == {i \in 1..Len(content) : FenceBody(content, i) > 0}
    IN  IF closed # {}
        THEN LET b == FenceBody(content, SetMin(closed))
             IN  Strip(SubSeq(content, b, SetMin(Closings(content, b)) - 1))
        ELSE IF opened # {}
        THEN Strip(SubSeq(content, FenceBody(content, SetMin(opened)),
                          Len(content)))
        ELSE Strip(content)

CodeChars == {"=", "(", ")", ".", "[", "]", ":", "#"}

\* the lines of generated that pass the prose, import and fence tests
KeepLine(line) ==
    LET s          == Strip(line)
        has_code   == \E i \in 1..Len(s) : s[i] \in CodeChars
        is_comment == StartsWith(s, <<"#">>)
        is_prose   == \/ (s[1] \in Upper /\ ~has_code)
                      \/ EndsWith(s, <<".", ".", ".">>)
                      \/ EndsWith(s, <<"?">>)
                      \/ EndsWith(s, <<"!">>)
    IN  IF s = <<>> THEN TRUE
        ELSE IF StartsWith(s, Fence) THEN FALSE
        ELSE IF \/ StartsWith(s, <<"i", "m", "p", "o", "r", "t", " ">>)
                \/ StartsWith(s, <<"f", "r", "o", "m", " ">>) THEN FALSE
        ELSE IF Contains(s, <<"r", "e", "a", "d", "_", "c", "s", "v">>)
        THEN FALSE
        ELSE ~(is_prose /\ ~is_comment)

RECURSIVE CleanLoop(_)
CleanLoop(lines) ==
    IF lines = <<>> THEN <<>>
    ELSE LET line == Head(lines)
         IN  (IF ~KeepLine(line) THEN <<>>
              ELSE IF Strip(line) = <<>> THEN <<EmptyStr>>
              ELSE <<line>>) \o CleanLoop(Tail(lines))

\* _clean_code_lines() with the generated line compared as it stands, not
\* trimmed, to the trimmed lines of the buffer
_clean_code_lines_untrimmed(generated, all_lines) ==
    LET clean    == CleanLoop(SplitLines(generated))
        existing == {Strip(all_lines[i]) : i \in
                        {j \in 1..Len(all_lines) : Strip(all_lines[j]) # <<>>}}
        New(l)   == l \notin existing
    IN  SelectSeq(clean, New)
\* _clean_code_lines(generated, all_lines)
_clean_code_lines(generated, all_lines) ==
    LET clean    == CleanLoop(SplitLines(generated))
        existing == {Strip(all_lines[i]) : i \in
                        {j \in 1..Len(all_lines) : Strip(all_lines[j]) # <<>>}}
        New(l)   == Strip(l) \notin existing
    IN  SelectSeq(clean, New)

(***************************************************************************)
(* Inline completion: clean_completion                                     *)
(***************************************************************************)
\* the two characters of the fill-in-the-middle tokens outside ASCII: the
\* full-width vertical bar and the low block
WideBar == "WB"
LowBlock == "LB"

FimBegin ==
    <<"<", WideBar, "f", "i", "m", LowBlock, "b", "e", "g", "i", "n",
      WideBar, ">">>
FimHole ==
    <<"<", WideBar, "f", "i", "m", LowBlock, "h", "o", "l", "e", WideBar, ">">>
FimEnd ==
    <<"<", WideBar, "f", "i", "m", LowBlock, "e", "n", "d", WideBar, ">">>
EndOfText ==
    <<"<", "|", "e", "n", "d", "o", "f", "t", "e", "x", "t", "|", ">">>

\* the tokens in the order the loop of line 176 removes them
ControlTokens == <<FimBegin, FimHole, FimEnd, EndOfText>>

\* str.replace(t, ""): one pass from the left over non-overlapping matches
RECURSIVE Remove(_, _)
Remove(s, t) ==
    IF Len(s) < Len(t) THEN s
    ELSE IF StartsWith(s, t) THEN Remove(SubSeq(s, Len(t) + 1, Len(s)), t)
    ELSE <<Head(s)>> \o Remove(Tail(s), t)

\* the loop of lines 176-177 from the i-th token on
RECURSIVE RemoveTokens(_, _)
RemoveTokens(s, i) ==
    IF i > Len(ControlTokens) THEN s
    ELSE RemoveTokens(Remove(s, ControlTokens[i]), i + 1)

\* the characters the regular expression of line 182 takes from the start:
\* double quote, single quote, comma, backquote and white space
LeadingJunk == {"\"", "'", ",", Backquote} \cup Whitespace

RECURSIVE LStripJunk(_)
LStripJunk(s) ==
    IF s # <<>> /\ Head(s) \in LeadingJunk THEN LStripJunk(Tail(s)) ELSE s

\* clean_completion(completion, current_line_before_cursor)
clean_completion(completion, current_line_before_cursor) ==
    LET no_tokens == RemoveTokens(completion, 1)
        no_fences == Strip(Remove(Remove(no_tokens, Fence \o Python), Fence))
        cur       == Strip(current_line_before_cursor)
        no_prefix == IF cur # <<>> /\ StartsWith(no_fences, cur)
                     THEN Strip(SubSeq(no_fences, Len(cur) + 1, Len(no_fences)))
                     ELSE no_fences
        no_junk   == LStripJunk(no_prefix)
    IN  Strip(SplitLines(no_junk)[1])
(***************************************************************************)
(* Inputs: editor state, model replies, the clock                          *)
(***************************************************************************)
X1 == <<"x", "=", "1">>

\* the editor buffer, a list of lines
Buffers ==
    { << <<"#", " ", "a">> >>,
      << X1, <<" ", "#", "#", "a", " ">> >>,
      << <<" ">> >> }

\* comments given to cache_snippet and get_cached_snippet
Keys == { <<"a">>, <<"b">> }

\* code given to cache_snippet
Codes == { <<>>, X1 }

\* message content returned by /api/chat
Responses ==
    { <<>>,
      <<Backquote, Backquote, Backquote, NL, "x", "=", "1", NL,
        Backquote, Backquote, Backquote>> }

\* how the request of an action ends
\*   ok          2xx and a JSON body with message.content
\*   no_field    2xx and a JSON body without message.content
\*   bad_json    2xx and a body json.loads rejects
\*   http_error  urllib.error.HTTPError (non-2xx)
\*   url_error   urllib.error.URLError (connection refused, DNS)
\*   timeout     socket timeout
NetErrors == {"http_error", "url_error", "timeout", "bad_json"}

NetOutcomes ==
    [kind : {"ok"}, content : Responses]
        \cup [kind : NetErrors \cup {"no_field"}, content : {<<>>}]

\* the answer typed at the reuse prompt, after strip().lower()
Answers == {"y", "n"}

Paths == {"p1"}
Summaries == {"s1"}

\* the content of a turn: which template built it and its parameters
Content(kind, text, whole_file, prior) ==
    [kind |-> kind, text |-> text, file |-> whole_file, prior |-> prior]

\* content given to add_turn when it is called on its own
RawContents == {Content("raw", <<"a">>, <<>>, <<>>),
                Content("raw", <<"b">>, <<>>, <<>>)}

\* the document a previous session left in the file
OldDocument ==
    [s \in {"snippets", "file_summaries"} |->
        IF s = "snippets"
        THEN (<<"a">> :> [code |-> X1, timestamp |-> "t1"])
        ELSE EmptyDict]

\* the backing file when the process starts
InitialFiles ==
    { AbsentFile,
      [exists |-> TRUE, readable |-> TRUE, torn |-> FALSE,
       text |-> JsonDump(OldDocument)],
      [exists |-> TRUE, readable |-> FALSE, torn |-> FALSE,
       text |-> JsonDump(OldDocument)],
      [exists |-> TRUE, readable |-> TRUE, torn |-> TRUE,
       text |-> SubSeq(JsonDump(OldDocument), 1, 5)] }

(***************************************************************************)
(* What the caller of the last operation observed                          *)
(***************************************************************************)
NoOp ==
    [op |-> "", outcome |-> "", arg |-> <<>>, input |-> "",
     result |-> None, sent |-> FALSE, prompted |-> FALSE, net |-> "none",
     raised |-> FALSE, wrote |-> FALSE, line |-> <<>>, lines |-> <<>>]

\* the second process while only one editor runs
NoPeer == [cache |-> EmptyDict, ctx |-> EmptyDict, start |-> EmptyDict]

\* what the user pointed an action at: nothing but white space ("blank"),
\* text whose first visible character is # ("comment"), or other text
InputClass(text) ==
    LET ink == {i \in 1..Len(text) : text[i] \notin Whitespace}
    IN  IF ink = {} THEN "blank"
        ELSE IF text[SetMin(ink)] = "#" THEN "comment"
        ELSE "other"

(***************************************************************************)
(* Start of the process: lines 21, 24 and 47                               *)
(***************************************************************************)
Init ==
    /\ file \in InitialFiles
    /\ turn_history = <<>>
    /\ snippet_cache = EmptyDict
    /\ disk_context = _load_context(file).ctx
    /\ appended = <<>>
    /\ puts = EmptyDict
    /\ durable = EmptyDict
    /\ peer = NoPeer
    /\ last = [NoOp EXCEPT !.op = "start",
                           !.raised = _load_context(file).raised]

\* a restart that starts from the empty document without reading the file
Restart_without_load ==
    /\ turn_history' = <<>>
    /\ snippet_cache' = EmptyDict
    /\ disk_context' = EmptyDocument
    /\ appended' = <<>>
    /\ puts' = EmptyDict
    /\ last' = [NoOp EXCEPT !.op = "start"]
    /\ UNCHANGED <<file, durable, peer>>
\* the host editor is restarted and the module is loaded again
Restart ==
    \E r \in {_load_context(file)} :
        /\ turn_history' = <<>>
        /\ snippet_cache' = EmptyDict
        /\ disk_context' = r.ctx
        /\ appended' = <<>>
        /\ puts' = EmptyDict
        /\ last' = [NoOp EXCEPT !.op = "start", !.raised = r.raised]
        /\ UNCHANGED <<file, durable, peer>>

(***************************************************************************)
(* Operations on the log and the cache                                     *)
(***************************************************************************)
Turn(role, content) == [role |-> role, content |-> content]

\* the turn the call sites pass as the n-th: user, assistant, user, ...
UsualTurn(n) ==
    Turn(IF n % 2 = 1 THEN "user" ELSE "assistant",
         Content("raw", <<"a">>, <<>>, <<>>))

Varied(log) == Cardinality({i \in 1..Len(log) : log[i] # UsualTurn(i)})

AddTurn(role, content) ==
    /\ Len(appended) < MaxAppends
    /\ \/ Turn(role, content) = UsualTurn(Len(appended) + 1)
       \/ Varied(appended) < MaxVaried
    /\ turn_history' = add_turn(turn_history, role, content)
    /\ appended' = Append(appended, Turn(role, content))
    /\ last' = [NoOp EXCEPT !.op = "add_turn"]
    /\ UNCHANGED <<snippet_cache, disk_context, file, puts, durable, peer>>

CacheSnippet(comment, code, ts, disk) ==
    \E r \in {cache_snippet(snippet_cache, disk_context, file,
                            comment, code, ts, disk)} :
        /\ snippet_cache' = r.cache
        /\ disk_context' = r.ctx
        /\ file' = r.file
        /\ puts' = DictSet(puts, comment, [code |-> code, wrote |-> r.wrote])
        /\ durable' = DictSet(durable, comment, code)
        /\ last' = [NoOp EXCEPT !.op = "put", !.raised = r.raised,
                                !.wrote = r.wrote]
        /\ UNCHANGED <<turn_history, appended, peer>>

\* get_cached_snippet() with a persisted-tier hit copied into the memory tier
GetCachedSnippet_promotes(comment) ==
    \E r \in {get_cached_snippet(snippet_cache, disk_context, comment)} :
        /\ snippet_cache' = IF r.some THEN DictSet(snippet_cache, comment, r.code)
                            ELSE snippet_cache
        /\ last' = [NoOp EXCEPT !.op = "get", !.arg = comment, !.result = r]
        /\ UNCHANGED <<turn_history, disk_context, file, appended, puts,
                       durable, peer>>
GetCachedSnippet(comment) ==
    /\ last' = [NoOp EXCEPT !.op = "get", !.arg = comment,
                  !.result = get_cached_snippet(snippet_cache, disk_context,
                                                comment)]
    /\ UNCHANGED <<turn_history, snippet_cache, disk_context, file,
                   appended, puts, durable, peer>>

StoreFileSummary(filepath, summary, ts, disk) ==
    \E r \in {store_file_summary(disk_context, file, filepath, summary,
                                 ts, disk)} :
        /\ disk_context' = r.ctx
        /\ file' = r.file
        /\ last' = [NoOp EXCEPT !.op = "summary", !.raised = r.raised,
                                !.wrote = r.wrote]
        /\ UNCHANGED <<turn_history, snippet_cache, appended, puts, durable,
                       peer>>

\* clear_history() with the log cleared in a different way: the oldest
\* entry is deleted, which raises on an empty log
clear_history_drops_oldest(log) ==
    IF log = <<>> THEN [log |-> log, raised |-> TRUE]
    ELSE [log |-> Tail(log), raised |-> FALSE]
\* clear_history(): list.clear() on the log; it cannot raise
clear_history(log) == [log |-> <<>>, raised |-> FALSE]

ClearHistory ==
    \E r \in {clear_history(turn_history)} :
        /\ turn_history' = r.log
        /\ appended' = IF r.log = <<>> THEN <<>> ELSE appended
        /\ last' = [NoOp EXCEPT !.op = "clear_history", !.raised = r.raised]
        /\ UNCHANGED <<snippet_cache, disk_context, file, puts, durable,
                       peer>>

\* clear_all_context()
ClearAllContext ==
    \E r \in {remove_context_file(file)} :
        /\ turn_history' = <<>>
        /\ snippet_cache' = EmptyDict
        /\ disk_context' = EmptyDict
        /\ file' = r.file
        /\ appended' = <<>>
        /\ puts' = EmptyDict
        /\ durable' = EmptyDict
        /\ last' = [NoOp EXCEPT !.op = "clear_all", !.raised = r.raised]
        /\ UNCHANGED peer

(***************************************************************************)
(* Editor actions                                                          *)
(***************************************************************************)
\* the text explain_code takes from the marks < and > (0: mark not set)
Selected(buffer, start, end, cur) ==
    IF start # 0 /\ end # 0 /\ start # end
    THEN JoinLines(SubSeq(buffer, start, end))
    ELSE IF start # 0 /\ end # 0 THEN buffer[start]
    ELSE buffer[cur]

\* explain_code appending the user turn before it sends the request
explain_code_logs_first(log, selected, net) ==
    LET code     == Strip(selected)
        user_msg == Content("explain", code, <<>>, <<>>)
        result   == Strip(net.content)
        reply    == Content("reply", result, <<>>, <<>>)
    IN  IF code = <<>>
        THEN [log |-> log, added |-> <<>>, outcome |-> "no_code",
              sent |-> FALSE, net |-> "none"]
        ELSE IF net.kind \in NetErrors
        THEN [log |-> add_turn(log, "user", user_msg), added |-> <<>>,
              outcome |-> net.kind, sent |-> TRUE, net |-> net.kind]
        ELSE [log     |-> add_turn(add_turn(log, "user", user_msg),
                                   "assistant", reply),
              added   |-> <<Turn("user", user_msg), Turn("assistant", reply)>>,
              outcome |-> "done", sent |-> TRUE, net |-> net.kind]

\* explain_code testing the selection before it strips it
explain_code_no_strip(log, selected, net) ==
    LET code     == Strip(selected)
        user_msg == Content("explain", code, <<>>, <<>>)
        result   == Strip(net.content)
        reply    == Content("reply", result, <<>>, <<>>)
    IN  IF selected = <<>>
        THEN [log |-> log, added |-> <<>>, outcome |-> "no_code",
              sent |-> FALSE, net |-> "none"]
        ELSE IF net.kind \in NetErrors
        THEN [log |-> log, added |-> <<>>, outcome |-> net.kind,
              sent |-> TRUE, net |-> net.kind]
        ELSE [log     |-> add_turn(add_turn(log, "user", user_msg),
                                   "assistant", reply),
              added   |-> <<Turn("user", user_msg), Turn("assistant", reply)>>,
              outcome |-> "done", sent |-> TRUE, net |-> net.kind]

\* explain_code(): the log it leaves and what it reports
explain_code(log, selected, net) ==
    LET code     == Strip(selected)
        user_msg == Content("explain", code, <<>>, <<>>)
        messages == Append(get_history_messages(log, "explain"),
                           Turn("user", user_msg))
        result   == Strip(net.content)
        reply    == Content("reply", result, <<>>, <<>>)
    IN  IF code = <<>>
        THEN [log |-> log, added |-> <<>>, outcome |-> "no_code",
              sent |-> FALSE, net |-> "none"]
        ELSE IF net.kind \in NetErrors
        THEN [log |-> log, added |-> <<>>, outcome |-> net.kind,
              sent |-> TRUE, net |-> net.kind]
        ELSE [log     |-> add_turn(add_turn(log, "user", user_msg),
                                   "assistant", reply),
              added   |-> <<Turn("user", user_msg), Turn("assistant", reply)>>,
              outcome |-> "done", sent |-> TRUE, net |-> net.kind]

\* explain_code() in a session of at most max_turns appended turns
ExplainWithin(max_turns, selected, net) ==
    \E r \in {explain_code(turn_history, selected, net)} :
        /\ Len(appended) + Len(r.added) <= max_turns
        /\ turn_history' = r.log
        /\ appended' = appended \o r.added
        /\ last' = [NoOp EXCEPT !.op = "explain",
                                !.input = InputClass(selected),
                                !.outcome = r.outcome, !.sent = r.sent,
                                !.net = r.net]
        /\ UNCHANGED <<snippet_cache, disk_context, file, puts, durable,
                       peer>>

Explain(selected, net) == ExplainWithin(MaxSessionTurns, selected, net)

\* the texts of the last three assistant turns, as generate_from_comment
\* quotes them in its prompt
Prior(log) ==
    LET IsAssistant(t) == t.role = "assistant"
        turns          == SelectSeq(log, IsAssistant)
        recent         == LastItems(turns, 3)
    IN  [i \in 1..Len(recent) |-> recent[i].content.text]

\* generate_from_comment() with a reused snippet copied into the memory tier
generate_from_comment_promotes(log, cache, ctx, f, buffer, row, answer, net, ts, disk) ==
    LET line         == buffer[row]
        comment      == Strip(line)
        description  == Strip(LStripHash(comment))
        all_lines    == buffer
        whole_file   == JoinLines(all_lines)
        cached       == get_cached_snippet(cache, ctx, description)
        hit          == cached.some /\ cached.code # <<>>
        user_content == Content("generate", description, whole_file, Prior(log))
        messages     == Append(get_history_messages(log, "generate"),
                               Turn("user", user_content))
        content      == Strip(net.content)
        generated    == _extract_code(content)
        lines        == _clean_code_lines(generated, all_lines)
        reply        == Content("reply", generated, <<>>, <<>>)
        put          == cache_snippet(cache, ctx, f, description, generated,
                                      ts, disk)
        same         == [log |-> log, added |-> <<>>, cache |-> cache,
                         ctx |-> ctx, file |-> f, outcome |-> "",
                         sent |-> FALSE, prompted |-> FALSE, net |-> "none",
                         put |-> FALSE, key |-> <<>>, code |-> <<>>,
                         wrote |-> FALSE]
    IN  IF comment = <<>>
        THEN [same EXCEPT !.outcome = "no_comment"]
        ELSE IF ~StartsWith(comment, <<"#">>)
        THEN [same EXCEPT !.outcome = "not_comment"]
        ELSE IF hit /\ answer = "y"
        THEN [same EXCEPT !.prompted = TRUE, !.key = description,
                 !.cache = DictSet(cache, description, cached.code),
                 !.outcome = IF _clean_code_lines(cached.code, all_lines) # <<>>
                             THEN "reused" ELSE "cache_nothing"]
        ELSE IF net.kind \in NetErrors
        THEN [same EXCEPT !.prompted = hit, !.key = description,
                          !.sent = TRUE, !.net = net.kind,
                          !.outcome = net.kind]
        ELSE IF lines = <<>>
        THEN [same EXCEPT !.prompted = hit, !.key = description,
                          !.sent = TRUE, !.net = net.kind,
                          !.outcome = "nothing_new"]
        ELSE [log      |-> add_turn(add_turn(log, "user", user_content),
                                    "assistant", reply),
              added    |-> <<Turn("user", user_content),
                             Turn("assistant", reply)>>,
              cache    |-> put.cache,
              ctx      |-> put.ctx,
              file     |-> put.file,
              outcome  |-> IF put.raised THEN "error" ELSE "done",
              sent     |-> TRUE,
              prompted |-> hit,
              net      |-> net.kind,
              put      |-> TRUE,
              key      |-> description,
              code     |-> generated,
              wrote    |-> put.wrote]

\* generate_from_comment(): the state it leaves and what it reports
generate_from_comment(log, cache, ctx, f, buffer, row, answer, net, ts, disk) ==
    LET line         == buffer[row]
        comment      == Strip(line)
        description  == Strip(LStripHash(comment))
        all_lines    == buffer
        whole_file   == JoinLines(all_lines)
        cached       == get_cached_snippet(cache, ctx, description)
        hit          == cached.some /\ cached.code # <<>>
        user_content == Content("generate", description, whole_file, Prior(log))
        messages     == Append(get_history_messages(log, "generate"),
                               Turn("user", user_content))
        content      == Strip(net.content)
        generated    == _extract_code(content)
        lines        == _clean_code_lines(generated, all_lines)
        reply        == Content("reply", generated, <<>>, <<>>)
        put          == cache_snippet(cache, ctx, f, description, generated,
                                      ts, disk)
        same         == [log |-> log, added |-> <<>>, cache |-> cache,
                         ctx |-> ctx, file |-> f, outcome |-> "",
                         sent |-> FALSE, prompted |-> FALSE, net |-> "none",
                         put |-> FALSE, key |-> <<>>, code |-> <<>>,
                         wrote |-> FALSE]
    IN  IF comment = <<>>
        THEN [same EXCEPT !.outcome = "no_comment"]
        ELSE IF ~StartsWith(comment, <<"#">>)
        THEN [same EXCEPT !.outcome = "not_comment"]
        ELSE IF hit /\ answer = "y"
        THEN [same EXCEPT !.prompted = TRUE, !.key = description,
                 !.outcome = IF _clean_code_lines(cached.code, all_lines) # <<>>
                             THEN "reused" ELSE "cache_nothing"]
        ELSE IF net.kind \in NetErrors
        THEN [same EXCEPT !.prompted = hit, !.key = description,
                          !.sent = TRUE, !.net = net.kind,
                          !.outcome = net.kind]
        ELSE IF lines = <<>>
        THEN [same EXCEPT !.prompted = hit, !.key = description,
                          !.sent = TRUE, !.net = net.kind,
                          !.outcome = "nothing_new"]
        ELSE [log      |-> add_turn(add_turn(log, "user", user_content),
                                    "assistant", reply),
              added    |-> <<Turn("user", user_content),
                             Turn("assistant", reply)>>,
              cache    |-> put.cache,
              ctx      |-> put.ctx,
              file     |-> put.file,
              outcome  |-> IF put.raised THEN "error" ELSE "done",
              sent     |-> TRUE,
              prompted |-> hit,
              net      |-> net.kind,
              put      |-> TRUE,
              key      |-> description,
              code     |-> generated,
              wrote    |-> put.wrote]

\* generate_from_comment() in a session of at most max_turns appended turns
GenerateWithin(max_turns, buffer, row, answer, net, ts, disk) ==
    \E r \in {generate_from_comment(turn_history, snippet_cache, disk_context,
                                    file, buffer, row, answer, net, ts, disk)} :
        /\ Len(appended) + Len(r.added) <= max_turns
        /\ turn_history' = r.log
        /\ appended' = appended \o r.added
        /\ snippet_cache' = r.cache
        /\ disk_context' = r.ctx
        /\ file' = r.file
        /\ puts' = IF r.put
                   THEN DictSet(puts, r.key,
                                [code |-> r.code, wrote |-> r.wrote])
                   ELSE puts
        /\ durable' = IF r.put THEN DictSet(durable, r.key, r.code)
                      ELSE durable
        /\ last' = [NoOp EXCEPT !.op = "generate",
                                !.input = InputClass(buffer[row]),
                                !.arg = r.key,
                                !.outcome = r.outcome,
                                !.sent = r.sent, !.prompted = r.prompted,
                                !.net = r.net, !.wrote = r.wrote]
        /\ UNCHANGED peer

Generate(buffer, row, answer, net, ts, disk) ==
    GenerateWithin(MaxSessionTurns, buffer, row, answer, net, ts, disk)

(***************************************************************************)
(* Inline completion action                                                *)
(***************************************************************************)
\* what a model response is made of: control tokens, whole and cut in two,
\* fences, quotes, text and line ends
Pieces ==
    { FimBegin, FimHole, FimEnd, EndOfText,
      SubSeq(FimBegin, 1, 8), SubSeq(FimBegin, 9, 13),
      SubSeq(EndOfText, 1, 6), SubSeq(EndOfText, 7, 13),
      Fence, <<"'">>, <<"x">>, <<" ">>, <<NL>> }

\* the "response" field of /api/generate
RECURSIVE Concats(_)
Concats(n) ==
    IF n = 0 THEN {<<>>}
    ELSE LET shorter == Concats(n - 1)
         IN  shorter \cup {s \o p : s \in shorter, p \in Pieces}

RawCompletions == Concats(MaxPieces)

\* the current line up to the cursor
CurrentLines == {<<>>, <<"x">>, <<" ", "x", " ">>}

\* insert_completion(): the completion it puts at the cursor is
\* last.result; the editor buffer is not part of the state
InsertCompletion(kind) ==
    /\ last.op = "cursor"
    /\ last' = IF kind \in NetErrors
               THEN [last EXCEPT !.op = "complete", !.sent = TRUE,
                                 !.net = kind, !.outcome = kind]
               ELSE LET completion == clean_completion(Strip(last.arg),
                                                       last.line)
                    IN  [last EXCEPT !.op = "complete", !.sent = TRUE,
                                     !.net = kind,
                                     !.result = Some(completion),
                                     !.outcome = IF completion = <<>>
                                                 THEN "no_completion"
                                                 ELSE "done"]
    /\ UNCHANGED <<turn_history, snippet_cache, disk_context, file,
                   appended, puts, durable, peer>>
(***************************************************************************)
(* The line filter on its own                                              *)
(***************************************************************************)
\* lines of generated code: code bare and indented, a blank line, a line of
\* white space, prose and a comment
LinePool ==
    { X1, <<" ", "x", "=", "1", " ">>, <<"y">>, <<>>, <<" ">>, <<"O", "k">>,
      <<"#", "c">> }

RECURSIVE LineLists(_)
LineLists(n) ==
    IF n = 0 THEN {<<>>}
    ELSE LET shorter == LineLists(n - 1)
         IN  shorter \cup {Append(ls, l) : ls \in shorter, l \in LinePool}

\* what _extract_code hands over: text of some lines, stripped
GeneratedTexts ==
    {t \in {JoinLines(ls) : ls \in LineLists(MaxLines)} : Strip(t) = t}

\* the lines of the buffer
ExistingLines ==
    { <<>>,
      <<X1>>,
      << <<" ", "y", " ">>, <<>> >>,
      << <<"#", "c">>, <<"x", "=", "1", " ">>, <<" ">> >> }

\* _clean_code_lines(generated, all_lines) as generate_from_comment calls it
\* at line 453: last.arg is the generated text, last.lines the buffer
CleanCodeLines ==
    /\ last.op = "generated"
    /\ \E lines \in {_clean_code_lines(last.arg, last.lines)} :
          last' = [last EXCEPT !.op = "filtered", !.result = Some(lines),
                               !.outcome = IF lines = <<>> THEN "nothing_new"
                                           ELSE "done"]
    /\ UNCHANGED <<turn_history, snippet_cache, disk_context, file,
                   appended, puts, durable, peer>>
(***************************************************************************)
(* A second editor process                                                 *)
(***************************************************************************)
\* cache_snippet(comment, code) called in the second process
PeerCacheSnippet(comment, code, ts, disk) ==
    \E r \in {cache_snippet(peer.cache, peer.ctx, file,
                            comment, code, ts, disk)} :
        /\ peer' = [peer EXCEPT !.cache = r.cache, !.ctx = r.ctx]
        /\ file' = r.file
        /\ last' = [NoOp EXCEPT !.op = "peer_put", !.raised = r.raised,
                                !.wrote = r.wrote]
        /\ UNCHANGED <<turn_history, snippet_cache, disk_context, appended,
                       puts, durable>>
(***************************************************************************)
(* Specifications                                                          *)
(***************************************************************************)
\* the marks < and >: both unset, or set with < not below >
Marks(buffer) ==
    {<<0, 0>>} \cup {m \in (1..Len(buffer)) \X (1..Len(buffer)) : m[1] <= m[2]}

\* the snippet cache and the persisted store under their own operations
Next ==
    \/ \E k \in Keys, c \in Codes, ts \in Timestamps, disk \in DiskOutcomes :
          CacheSnippet(k, c, ts, disk)
    \/ \E k \in Keys : GetCachedSnippet(k)
    \/ \E fp \in Paths, sm \in Summaries, ts \in Timestamps,
          disk \in DiskOutcomes : StoreFileSummary(fp, sm, ts, disk)
    \/ ClearHistory
    \/ ClearAllContext
    \/ Restart

Spec == Init /\ [][Next]_vars

\* the editor actions
InitEdit ==
    /\ Init
    /\ file.exists => file.readable /\ ~file.torn

\* the texts explain_code can be pointed at
Selections ==
    UNION {{Selected(b, m[1], m[2], cur) : m \in Marks(b), cur \in 1..Len(b)} :
           b \in Buffers}

\* the disk while the editor actions run: healthy, or the directory is gone
EditDiskOutcomes == {d \in DiskOutcomes : d.kind \in {"ok", "mkdir_fail"}}

NextEdit ==
    \/ \E selected \in Selections, net \in NetOutcomes :
          Explain(selected, net)
    \/ \E b \in Buffers : \E row \in 1..Len(b), answer \in Answers,
          net \in NetOutcomes, ts \in Timestamps, disk \in EditDiskOutcomes :
          Generate(b, row, answer, net, ts, disk)
    \/ ClearHistory
    \/ ClearAllContext

SpecEdit == InitEdit /\ [][NextEdit]_vars

\* the log under add_turn calls alone
InitLog ==
    /\ file = AbsentFile
    /\ turn_history = <<>>
    /\ snippet_cache = EmptyDict
    /\ disk_context = _load_context(file).ctx
    /\ appended = <<>>
    /\ puts = EmptyDict
    /\ durable = EmptyDict
    /\ peer = NoPeer
    /\ last = [NoOp EXCEPT !.op = "start"]

NextLog ==
    \/ \E role \in Roles, content \in RawContents : AddTurn(role, content)
    \/ ClearHistory

SpecLog == InitLog /\ [][NextLog]_vars

\* inline completion: the cursor stands after last.line and the model is
\* going to answer last.arg
InitComplete ==
    /\ file = AbsentFile
    /\ turn_history = <<>>
    /\ snippet_cache = EmptyDict
    /\ disk_context = _load_context(file).ctx
    /\ appended = <<>>
    /\ puts = EmptyDict
    /\ durable = EmptyDict
    /\ peer = NoPeer
    /\ \E raw \in RawCompletions, cur \in CurrentLines :
          last = [NoOp EXCEPT !.op = "cursor", !.arg = raw, !.line = cur]

NextComplete == \E kind \in {"ok"} \cup NetErrors : InsertCompletion(kind)

SpecComplete == InitComplete /\ [][NextComplete]_vars
\* the line filter: the model answered last.arg for the buffer last.lines
InitFilter ==
    /\ file = AbsentFile
    /\ turn_history = <<>>
    /\ snippet_cache = EmptyDict
    /\ disk_context = _load_context(file).ctx
    /\ appended = <<>>
    /\ puts = EmptyDict
    /\ durable = EmptyDict
    /\ peer = NoPeer
    /\ \E generated \in GeneratedTexts, all_lines \in ExistingLines :
          last = [NoOp EXCEPT !.op = "generated", !.arg = generated,
                              !.lines = all_lines]

NextFilter == CleanCodeLines

SpecFilter == InitFilter /\ [][NextFilter]_vars
\* two editor processes on one backing file, each loaded once at start
\* (line 47), on a disk that does not fail
InitShared ==
    /\ file \in {f \in InitialFiles : f.exists => f.readable /\ ~f.torn}
    /\ turn_history = <<>>
    /\ snippet_cache = EmptyDict
    /\ disk_context = _load_context(file).ctx
    /\ appended = <<>>
    /\ puts = EmptyDict
    /\ durable = EmptyDict
    /\ peer = [cache |-> EmptyDict, ctx |-> _load_context(file).ctx,
               start |-> _load_context(file).ctx]
    /\ last = [NoOp EXCEPT !.op = "start"]

NextShared ==
    \/ \E k \in Keys, c \in Codes, ts \in Timestamps,
          disk \in {d \in DiskOutcomes : d.kind = "ok"} :
          CacheSnippet(k, c, ts, disk)
    \/ \E k \in Keys, c \in Codes, ts \in Timestamps,
          disk \in {d \in DiskOutcomes : d.kind = "ok"} :
          PeerCacheSnippet(k, c, ts, disk)

SpecShared == InitShared /\ [][NextShared]_vars
\* sessions of one process on a healthy store: the file is intact at the
\* first start and no save fails
InitSessions ==
    /\ Init
    /\ file.exists => file.readable /\ ~file.torn

NextSessions ==
    \/ \E k \in Keys, c \in Codes, ts \in Timestamps,
          disk \in {d \in DiskOutcomes : d.kind = "ok"} :
          CacheSnippet(k, c, ts, disk)
    \/ \E k \in Keys : GetCachedSnippet(k)
    \/ \E fp \in Paths, sm \in Summaries, ts \in Timestamps,
          disk \in {d \in DiskOutcomes : d.kind = "ok"} :
          StoreFileSummary(fp, sm, ts, disk)
    \/ ClearAllContext
    \/ Restart

SpecSessions == InitSessions /\ [][NextSessions]_vars
\* a long session of explain and generate on one selection and one comment:
\* the model answers with fenced code or the request times out
ChatNetOutcomes ==
    {n \in NetOutcomes :
        \/ n.kind = "timeout"
        \/ n.kind = "ok" /\ n.content # <<>>}

NextChat ==
    \/ \E net \in ChatNetOutcomes : ExplainWithin(MaxChatTurns, X1, net)
    \/ \E answer \in Answers, net \in ChatNetOutcomes, ts \in Timestamps,
          disk \in {d \in DiskOutcomes : d.kind = "ok"} :
          GenerateWithin(MaxChatTurns, << <<"#", " ", "a">> >>, 1, answer,
                         net, ts, disk)
    \/ ClearHistory
    \/ ClearAllContext

SpecChat == InitEdit /\ [][NextChat]_vars
(***************************************************************************)
(* Properties                                                              *)
(***************************************************************************)
Snippets(ctx) == DictGet(ctx, "snippets", EmptyDict)
Summaries_(ctx) == DictGet(ctx, "file_summaries", EmptyDict)

\* the document holds an entry for comment k with this code
DocHas(ctx, k, code) ==
    k \in DOMAIN Snippets(ctx) /\ Snippets(ctx)[k].code = code

Stores == <<turn_history, snippet_cache, disk_context, file>>

HealthyDisk == [kind |-> "ok", written |-> 0]

\* C1: after any sequence of add_turn calls from an empty log, the log is
\* no longer than 2 * MAX_TURNS and holds exactly the most recently
\* appended min(n, 2 * MAX_TURNS) turns, in the order they were appended.
LogKeepsMostRecent ==
    LET n == Len(appended)
        m == IF n < 2 * MAX_TURNS THEN n ELSE 2 * MAX_TURNS
    IN  /\ Len(turn_history) <= 2 * MAX_TURNS
        /\ Len(turn_history) = m
        /\ \A i \in 1..m : turn_history[i] = appended[n - m + i]

\* more turns were appended than the log holds, some of them unusual
LogHasEvicted ==
    /\ Len(appended) >= 2 * MAX_TURNS + 2
    /\ Varied(appended) > 0
    /\ last.op = "add_turn"

\* C2: a get that follows a put of the same comment in the same process,
\* with no clear_all between them, returns the code of the latest such put,
\* whether or not that put reached the disk.
GetReturnsLatestPut ==
    (last.op = "get" /\ last.arg \in DOMAIN puts)
        => last.result = Some(puts[last.arg].code)

\* a get returned the code of a put whose disk write failed
GetAfterFailedWrite ==
    /\ last.op = "get"
    /\ last.arg \in DOMAIN puts
    /\ ~puts[last.arg].wrote
    /\ last.result.some

\* C3: save never propagates an error to its caller, so a put and a
\* file-summary write complete normally whatever the disk does.
SaveNeverRaises ==
    last.op \in {"put", "summary"} => ~last.raised

\* C4 as claimed: every comment in the memory tier is in the document with
\* the same code and was written to the backing file by the put that placed
\* it in memory.
MemoryTierWrittenThrough ==
    \A k \in DOMAIN snippet_cache :
        /\ DocHas(disk_context, k, snippet_cache[k])
        /\ k \in DOMAIN puts /\ puts[k].wrote

\* C4 as amended: every comment in the memory tier is in the in-memory
\* document with the same code; the backing file holds it too when the save
\* of the put that placed it succeeded and the file was not torn since.
MemoryTierInDocument ==
    \A k \in DOMAIN snippet_cache :
        /\ DocHas(disk_context, k, snippet_cache[k])
        /\ k \in DOMAIN puts
        /\ (puts[k].wrote /\ file.readable /\ ~file.torn)
               => /\ file.exists
                  /\ DocHas(_load_context(file).ctx, k, snippet_cache[k])

\* a comment is in memory and in the document, and the readable, whole
\* backing file does not hold it
MemoryAheadOfFile ==
    \E k \in DOMAIN snippet_cache :
        /\ ~puts[k].wrote
        /\ file.exists /\ file.readable /\ ~file.torn
        /\ k \notin DOMAIN Snippets(_load_context(file).ctx)

\* C5: on a healthy store, saving the current document and loading it
\* again yields an equal document.
SaveLoadRoundTrip ==
    LET saved == _save_context(disk_context, file, HealthyDisk)
    IN  saved.file.readable
            => /\ ~saved.raised
               /\ ~_load_context(saved.file).raised
               /\ _load_context(saved.file).ctx = disk_context

\* the document holds a snippet and a file summary, the store is healthy
DocumentWithBothSections ==
    /\ DOMAIN Snippets(disk_context) # {}
    /\ DOMAIN Summaries_(disk_context) # {}
    /\ file.exists /\ file.readable

\* C6: loading a missing, corrupt or unreadable backing file yields the
\* empty document and raises nothing.
LoadDegradesToEmpty ==
    (last.op = "start" /\ (~file.exists \/ ~file.readable \/ file.torn))
        => /\ disk_context = EmptyDocument
           /\ ~last.raised

\* the process started on a file that a failed write of this model tore
StartedOnTornFile ==
    /\ last.op = "start"
    /\ file.exists /\ file.readable /\ file.torn
    /\ Len(file.text) = 1

\* C7: on a healthy store, after every completed put and file-summary
\* write the backing file holds the whole current in-memory document.
FileHoldsDocumentAfterWrite ==
    (last.op \in {"put", "summary"} /\ last.wrote /\ file.readable)
        => /\ file.exists /\ ~file.torn
           /\ _load_context(file).ctx = disk_context

\* a put completed on a document of two snippets and a file summary
PutIntoFullDocument ==
    /\ last.op = "put" /\ last.wrote /\ file.readable
    /\ Cardinality(DOMAIN Snippets(disk_context)) = 2
    /\ DOMAIN Summaries_(disk_context) # {}

\* C8: clear_all empties the in-memory document and removes the backing
\* file, so that every get finds nothing and a load yields the empty
\* document; a second clear_all raises nothing and changes nothing.
ClearAllEmptiesAndRepeats ==
    [][last'.op = "clear_all"
         => /\ ~last'.raised
            /\ turn_history' = <<>>
            /\ snippet_cache' = EmptyDict
            /\ disk_context' = EmptyDict
            /\ ~file'.exists
            /\ \A k \in Keys :
                  get_cached_snippet(snippet_cache', disk_context', k) = None
            /\ _load_context(file').ctx = EmptyDocument
            /\ (last.op = "clear_all" => UNCHANGED vars)]_vars

\* clear_all has run and left no file
ClearedAll ==
    /\ last.op = "clear_all"
    /\ ~file.exists
    /\ disk_context = EmptyDict

\* C9: an explain or generate action whose request ends in a transport
\* error, a non-2xx status or a timeout leaves the turn log, both cache
\* tiers and the backing file as they were.
NetworkErrorChangesNothing ==
    [][(/\ last'.op \in {"explain", "generate"}
        /\ last'.net \in {"http_error", "url_error", "timeout"})
          => /\ last'.sent
             /\ UNCHANGED Stores]_vars

\* a generate action timed out on a session that had turns and snippets
TimedOutWithState ==
    /\ last.op = "generate" /\ last.net = "timeout"
    /\ turn_history # <<>>
    /\ DOMAIN snippet_cache # {}
    /\ file.exists

\* C10: an explain on a blank selection, and a generate on a blank line or
\* on a line that does not start with #, send no request and change neither
\* the turn log, the cache tiers nor the backing file.
RejectedInputChangesNothing ==
    [][(\/ last'.op = "explain" /\ last'.input = "blank"
        \/ last'.op = "generate" /\ last'.input \in {"blank", "other"})
          => /\ ~last'.sent
             /\ UNCHANGED Stores]_vars

\* a generate was rejected on a line of code while the session had state
RejectedWithState ==
    /\ last.op = "generate" /\ last.input = "other"
    /\ last.outcome = "not_comment"
    /\ turn_history # <<>>
    /\ DOMAIN snippet_cache # {}

\* C11: get_history_messages returns the system message followed by the
\* entries of the turn log, which are the most recent min(n, 2 * MAX_TURNS)
\* appended turns in the order they were appended; after 25 appended turns
\* the log has exactly 20 entries and the list 21 messages.
HistoryMessagesAreSystemThenLog ==
    LET messages == get_history_messages(turn_history, "system prompt")
        n        == Len(appended)
        m        == IF n < 2 * MAX_TURNS THEN n ELSE 2 * MAX_TURNS
    IN  /\ messages[1] = [role |-> "system", content |-> "system prompt"]
        /\ Len(messages) = 1 + m
        /\ \A i \in 1..m : messages[1 + i] = appended[n - m + i]
        /\ n = 25 => Len(turn_history) = 20 /\ Len(messages) = 21

\* 25 turns were appended to an empty log
TwentyFiveAppended ==
    /\ Len(appended) = 25
    /\ last.op = "add_turn"
    /\ Len(get_history_messages(turn_history, "system prompt")) = 21

\* C12: get(key) returns the memory tier's code when the key is there, else
\* the persisted tier's code when the key is there, else nothing; it does
\* not copy a persisted-tier hit into the memory tier and changes neither
\* tier, the turn log nor the backing file.
GetReadsMemoryThenDocument ==
    [][last'.op = "get"
          => /\ UNCHANGED Stores
             /\ last'.result =
                  IF last'.arg \in DOMAIN snippet_cache
                  THEN Some(snippet_cache[last'.arg])
                  ELSE IF last'.arg \in DOMAIN Snippets(disk_context)
                  THEN Some(Snippets(disk_context)[last'.arg].code)
                  ELSE None]_vars

\* a get missed the memory tier and hit the persisted tier, and the key is
\* still in the persisted tier alone
GetHitDocumentOnly ==
    /\ last.op = "get"
    /\ last.result.some
    /\ last.arg \notin DOMAIN snippet_cache
    /\ last.arg \in DOMAIN Snippets(disk_context)

\* C13: whatever the model response and the current line, the completion
\* clean_completion returns holds no line end and none of the four control
\* tokens, also when the removal of one token joins the text around it.
CompletionHasNoControlToken ==
    (last.op = "complete" /\ last.result.some)
        => /\ \A i \in 1..Len(last.result.code) : last.result.code[i] # NL
           /\ \A i \in 1..Len(ControlTokens) :
                 ~Contains(last.result.code, ControlTokens[i])

\* the lines of a are lines of b in the order of b; a blank line stands for
\* any blank line
RECURSIVE IsSubsequence(_, _)
IsSubsequence(a, b) ==
    IF a = <<>> THEN TRUE
    ELSE IF b = <<>> THEN FALSE
    ELSE IF \/ Head(a) = Head(b)
            \/ Strip(Head(a)) = <<>> /\ Strip(Head(b)) = <<>>
    THEN IsSubsequence(Tail(a), Tail(b))
    ELSE IsSubsequence(a, Tail(b))

\* C14: _clean_code_lines returns no non-blank line whose trimmed text is
\* the trimmed text of a line of the buffer, and the lines it returns are
\* lines of the generated text in their original order.
FilterDropsExistingKeepsOrder ==
    last.op = "filtered"
        => LET returned == last.result.code
               existing == last.lines
           IN  /\ \A i \in 1..Len(returned) :
                     Strip(returned[i]) # <<>>
                        => \A j \in 1..Len(existing) :
                              Strip(returned[i]) # Strip(existing[j])
               /\ IsSubsequence(returned, SplitLines(last.arg))

\* an indented copy of a buffer line was dropped and two lines were kept
DroppedIndentedCopy ==
    /\ last.op = "filtered"
    /\ Len(last.result.code) >= 2
    /\ \E i \in 1..Len(SplitLines(last.arg)), j \in 1..Len(last.lines) :
          /\ SplitLines(last.arg)[i] # Strip(SplitLines(last.arg)[i])
          /\ Strip(SplitLines(last.arg)[i]) # <<>>
          /\ Strip(SplitLines(last.arg)[i]) = Strip(last.lines[j])

\* C15: with two processes on one backing file, each loaded once at start,
\* after any interleaving of puts the file holds the whole in-memory
\* document of the process that saved last, and a key the other process
\* put, which the saver neither loaded at start nor put itself, is not in
\* the file.
FileIsLastSaversDocument ==
    LET on_file == _load_context(file).ctx
    IN  /\ (last.op = "put" /\ last.wrote)
              => /\ on_file = disk_context
                 /\ \A k \in DOMAIN peer.cache :
                       k \notin DOMAIN snippet_cache \cup
                                DOMAIN Snippets(peer.start)
                          => k \notin DOMAIN Snippets(on_file)
        /\ (last.op = "peer_put" /\ last.wrote)
              => /\ on_file = peer.ctx
                 /\ \A k \in DOMAIN snippet_cache :
                       k \notin DOMAIN peer.cache \cup
                                DOMAIN Snippets(peer.start)
                          => k \notin DOMAIN Snippets(on_file)

\* lost update: the second process saved last, and a snippet this process
\* put and saved before is in its memory and document but not in the file
LostUpdate ==
    /\ last.op = "peer_put" /\ last.wrote
    /\ \E k \in DOMAIN snippet_cache :
          /\ k \in DOMAIN puts /\ puts[k].wrote
          /\ k \in DOMAIN Snippets(disk_context)
          /\ k \notin DOMAIN Snippets(_load_context(file).ctx)

\* C16: in a healthy store a get(k), in the session of the put or in any
\* later session after restarts, returns the code of the most recent
\* put(k, _) made since the last clear_all.
PutSurvivesRestart ==
    (last.op = "get" /\ last.arg \in DOMAIN durable)
        => last.result = Some(durable[last.arg])

\* a get in a later session: the key was put before the last restart, not
\* in this session, and the memory tier does not have it
GetInLaterSession ==
    /\ last.op = "get"
    /\ last.arg \in DOMAIN durable
    /\ last.arg \notin DOMAIN puts
    /\ last.arg \notin DOMAIN snippet_cache
    /\ last.result = Some(durable[last.arg])
    /\ DOMAIN Snippets(disk_context) = Keys

\* C17: a generate on a comment whose description get_cached_snippet finds
\* in the cache, a cached empty string included, offers the choice between
\* reuse and regeneration before it sends a request.
CacheHitOffersReuse ==
    [][(/\ last'.op = "generate"
        /\ last'.input = "comment"
        /\ get_cached_snippet(snippet_cache, disk_context, last'.arg).some)
          => last'.prompted]_vars

\* C18: clear_history leaves the turn log empty, raises nothing also when
\* the log was empty already, and leaves the memory tier, the document and
\* the backing file as they were.
ClearHistoryOnlyEmptiesLog ==
    [][last'.op = "clear_history"
          => /\ turn_history' = <<>>
             /\ ~last'.raised
             /\ UNCHANGED <<snippet_cache, disk_context, file>>]_vars

\* the log was cleared in a session that had generated and cached a snippet
ClearedLogKeptCache ==
    /\ last.op = "clear_history"
    /\ turn_history = <<>>
    /\ DOMAIN puts # {}
    /\ DOMAIN snippet_cache # {}
    /\ file.exists

\* C19: when only explain, generate and the clear operations touch the log,
\* the log has even length and alternates user, assistant from a user turn
\* on, at every action boundary and also after evictions at capacity.
LogAlternatesUserAssistant ==
    /\ Len(turn_history) % 2 = 0
    /\ \A i \in 1..Len(turn_history) :
          turn_history[i].role = IF i % 2 = 1 THEN "user" ELSE "assistant"

\* explain and generate filled the log and two pairs were evicted
PairsEvictedAtCapacity ==
    /\ Len(appended) = 2 * MAX_TURNS + 4
    /\ Len(turn_history) = 2 * MAX_TURNS
    /\ \E i \in 1..Len(turn_history) :
          turn_history[i].content.kind = "explain"
    /\ \E i \in 1..Len(turn_history) :
          turn_history[i].content.kind = "generate"

\* C20: a generate that finds its description in the cache and is answered
\* y sends no request and leaves the turn log, both cache tiers and the
\* backing file as they were, whether the cached snippet gives lines to
\* insert or none.
ReuseChangesNothing ==
    [][(/\ last'.op = "generate"
        /\ last'.outcome \in {"reused", "cache_nothing"})
          => /\ last'.prompted
             /\ ~last'.sent /\ last'.net = "none"
             /\ UNCHANGED Stores]_vars

\* a snippet of the persisted tier alone was reused in a session with
\* turns, and all its lines were in the buffer already
ReusedNothingNew ==
    /\ last.op = "generate" /\ last.outcome = "cache_nothing"
    /\ last.arg \notin DOMAIN snippet_cache
    /\ last.arg \in DOMAIN Snippets(disk_context)
    /\ turn_history # <<>>
    /\ file.exists

====
